---- MODULE Spec2Model ----
(***************************************************************************)
(* Model of the Flask backend of the federated-learning ledger client      *)
(* (flask-backend/app.py): the FabricGateway (invoke / query / output      *)
(* parser), the VPSAAggregator (aggregate_weights, aggregate_prototypes,   *)
(* compute_metrics) and the /api/aggregate round handler.                  *)
(*                                                                         *)
(* Numbers are exact rationals <<numerator, denominator>>; the rounding of *)
(* Python floats is not modelled.                                          *)
(***************************************************************************)
EXTENDS Integers, Sequences, FiniteSets, TLC

VARIABLES
    \* ---- aggregator (pure functions applied to an input snapshot) ----
    agg_models,        \* local_models handed to the aggregator
    source_weight,     \* source_weight argument
    target_weight,     \* target_weight argument
    agg_weights_out,   \* outcome of aggregate_weights, or NotRun
    agg_protos_out,    \* outcome of aggregate_prototypes, or NotRun
    \* ---- one /api/aggregate request (aggregate_models) ----
    pc,                \* position of the handler: idle, query, invoke, done
    model_ids,         \* modelIDs of the request
    cursor,            \* index in model_ids of the next id to query
    local_models,      \* the working set
    invoke_args,       \* args handed to invoke_chaincode('AggregateModels', args)
    response,          \* HTTP response of the handler
    query_log,         \* the queries made: id and how the transport ended
    call_log,          \* gateway calls made, in order
    chain,             \* provenance argument of each committed AggregateModels
    \* ---- one gateway call at a time, with its transport and the ledger ----
    gw_call,           \* the call in progress: idle, invoke, query
    gw_clock,          \* time units since subprocess.run began
    gw_tx,             \* transaction of the latest invoke: none, submitted, committed
    gw_end,            \* how the transport of the latest call ended
    gw_ret,            \* what the latest call gave its caller
    gw_last,           \* kind of the latest call that ended: none, invoke, query
    gw_calls,          \* calls begun
    gw_height,         \* blocks committed on the ledger
    \* ---- compute_metrics and parse_fabric_output applied to an input ----
    metrics_in,        \* local_models handed to compute_metrics
    metrics_out,       \* what compute_metrics returned, or MetricsNotRun
    raw_output,        \* output handed to parse_fabric_output
    parsed_out         \* what parse_fabric_output returned, or NotParsed

aggVars == <<agg_models, source_weight, target_weight, agg_weights_out, agg_protos_out>>
roundVars == <<pc, model_ids, cursor, local_models, invoke_args, response, query_log, call_log, chain>>

gwVars == <<gw_call, gw_clock, gw_tx, gw_end, gw_ret, gw_last, gw_calls, gw_height>>

pureVars == <<metrics_in, metrics_out, raw_output, parsed_out>>

vars == <<aggVars, roundVars, gwVars, pureVars>>

----------------------------------------------------------------------------
(* Bounds of the model                                                     *)

MaxModels == 3
MaxIds == 3
MaxCalls == 2
MaxTextLen == 5

----------------------------------------------------------------------------
(* Exact rational arithmetic standing for Python number arithmetic         *)

Abs(x) == IF x < 0 THEN -x ELSE x

RECURSIVE Gcd(_, _)
Gcd(a, b) == IF b = 0 THEN a ELSE Gcd(b, a % b)

\* n/d in lowest terms with a positive denominator (d # 0)
Norm(n, d) ==
    LET s == IF d < 0 THEN -1 ELSE 1
        g == Gcd(Abs(n), Abs(d))
    IN  <<(s * n) \div g, (s * d) \div g>>

Rat(k) == <<k, 1>>
Zero == Rat(0)
RatAdd(x, y) == Norm(x[1] * y[2] + y[1] * x[2], x[2] * y[2])
RatSub(x, y) == Norm(x[1] * y[2] - y[1] * x[2], x[2] * y[2])
RatMul(x, y) == Norm(x[1] * y[1], x[2] * y[2])
RatDivInt(x, k) == Norm(x[1], x[2] * k)

\* Python sum() over a sequence of numbers
RECURSIVE Sum(_)
Sum(xs) == IF xs = <<>> THEN Zero ELSE RatAdd(xs[1], Sum(Tail(xs)))

\* sum(x) / len(x)
Mean(xs) == RatDivInt(Sum(xs), Len(xs))

Min(S) == CHOOSE m \in S : \A x \in S : m <= x

----------------------------------------------------------------------------
(* Values of a weights / prototypes mapping: a scalar or a list of         *)
(* scalars.  One record shape for both, tagged by ty.                      *)

Num(k) == [ty |-> "num", n |-> Rat(k), v |-> <<>>]
NumR(r) == [ty |-> "num", n |-> r, v |-> <<>>]
Vec(ks) == [ty |-> "vec", n |-> Zero, v |-> [i \in 1..Len(ks) |-> Rat(ks[i])]]
VecR(rs) == [ty |-> "vec", n |-> Zero, v |-> rs]

IsList(x) == x.ty = "vec"

EmptyMap == <<>>

\* json.dumps / json.loads of a mapping carried as a string field of a model
\* record: the text is a tagged envelope, and text that is not JSON does not
\* decode.
DumpsMap(m) == [enc |-> "json", body |-> m]
LoadsMap(s) == s.body

----------------------------------------------------------------------------
(* Python values as the handlers see them.  ty is the Python type: "obj" a *)
(* dict (a model record, in rec), "arr" a list, "num" a number, "str" a    *)
(* string whose characters are in text.                                    *)

NoRec == [modelID |-> "none", domain |-> "none", weights |-> DumpsMap(EmptyMap), prototypes |-> DumpsMap(EmptyMap),
          accuracy |-> Zero, loss |-> Zero, alignmentLoss |-> Zero, dataSize |-> 0]

PyObj(r) == [ty |-> "obj", n |-> 0, text |-> <<>>, rec |-> r]
PyNum(k) == [ty |-> "num", n |-> k, text |-> <<>>, rec |-> NoRec]
PyArr(k) == [ty |-> "arr", n |-> k, text |-> <<>>, rec |-> NoRec]
PyStr(t) == [ty |-> "str", n |-> 0, text |-> t, rec |-> NoRec]

IsDict(x) == x.ty = "obj"
IsStr(x) == x.ty = "str"

\* Outcome of a call that either returns a value or raises
Returned(v) == [ok |-> TRUE, val |-> v, err |-> "none"]
Raised(e) == [ok |-> FALSE, val |-> DumpsMap(EmptyMap), err |-> e]
NotRun == [ok |-> FALSE, val |-> DumpsMap(EmptyMap), err |-> "not-run"]

----------------------------------------------------------------------------
(* Text as the transport prints it: a sequence of tokens.                  *)
(*   esc   one terminal escape sequence (what the ansi_escape regex        *)
(*         matches)                                                        *)
(*   sp    whitespace other than a newline                                 *)
(*   nl    a newline                                                       *)
(*   word  text that is not JSON; ty tells its first character: "brace"    *)
(*         for "{", "brack" for "[", "plain" otherwise                     *)
(*   json  the JSON text of a value: ty "obj" (the record rec), "arr" or   *)
(*         "num" (the number n)                                            *)
(*   jstr  a JSON string literal; its content is the token of the same     *)
(*         ty, n and rec (ty "plain": content that is not JSON)            *)

Esc == [k |-> "esc", ty |-> "none", n |-> 0, rec |-> NoRec]
Sp == [k |-> "sp", ty |-> "none", n |-> 0, rec |-> NoRec]
Nl == [k |-> "nl", ty |-> "none", n |-> 0, rec |-> NoRec]
Word(c) == [k |-> "word", ty |-> c, n |-> 0, rec |-> NoRec]
JsonObj(r) == [k |-> "json", ty |-> "obj", n |-> 0, rec |-> r]
JsonArr(i) == [k |-> "json", ty |-> "arr", n |-> i, rec |-> NoRec]
JsonNum(i) == [k |-> "json", ty |-> "num", n |-> i, rec |-> NoRec]
JsonStr(t) == [k |-> "jstr", ty |-> t.ty, n |-> t.n, rec |-> t.rec]

\* the content of a JSON string literal
Unquote(t) == IF t.ty = "plain" THEN Word("plain") ELSE [t EXCEPT !.k = "json"]

IsSpace(t) == t.k \in {"sp", "nl"}

\* str.strip()
RECURSIVE LStrip(_)
LStrip(t) == IF t # <<>> /\ IsSpace(t[1]) THEN LStrip(Tail(t)) ELSE t

RECURSIVE RStrip(_)
RStrip(t) == IF t # <<>> /\ IsSpace(t[Len(t)]) THEN RStrip(SubSeq(t, 1, Len(t) - 1)) ELSE t

Strip(t) == RStrip(LStrip(t))

\* str.split('\n'): the pieces between newlines; one (empty) piece for ''
RECURSIVE Split(_)
Split(t) ==
    IF \A i \in 1..Len(t) : t[i].k # "nl" THEN <<t>>
    ELSE LET i == Min({j \in 1..Len(t) : t[j].k = "nl"})
         IN  <<SubSeq(t, 1, i - 1)>> \o Split(SubSeq(t, i + 1, Len(t)))

\* line.startswith('{') or line.startswith('[')
StartsStructured(line) ==
    /\ line # <<>>
    /\ \/ line[1].k = "word" /\ line[1].ty \in {"brace", "brack"}
       \/ line[1].k = "json" /\ line[1].ty \in {"obj", "arr"}

\* the Python value a JSON token decodes to
Decoded(t) ==
    IF t.k = "jstr" THEN PyStr(<<Unquote(t)>>)
    ELSE [ty |-> t.ty, n |-> t.n, text |-> <<>>, rec |-> t.rec]

\* json.loads(s): surrounding whitespace is allowed, and the rest must be
\* one JSON text; ok is FALSE for JSONDecodeError
JsonLoads(s) ==
    LET t == Strip(s)
    IN  IF Len(t) = 1 /\ t[1].k \in {"json", "jstr"}
        THEN [ok |-> TRUE, val |-> Decoded(t[1])]
        ELSE [ok |-> FALSE, val |-> PyStr(<<>>)]

----------------------------------------------------------------------------
(* FabricGateway.parse_fabric_output                                       *)

\* ansi_escape.sub('', output)
StripAnsi(output) == SelectSeq(output, LAMBDA t : t.k # "esc")

\* (variant) the first loop stops at the first line that starts as an object
\* or array, whether or not it decodes
ForwardHits_StopAtFirstShape(lines) ==
    {i \in 1..Len(lines) :
        /\ StartsStructured(Strip(lines[i]))
        /\ JsonLoads(Strip(lines[i])).ok
        /\ \A j \in 1..(i - 1) : ~StartsStructured(Strip(lines[j]))}

\* first loop: the first line that starts as an object or array and decodes
ForwardHits(lines) ==
    {i \in 1..Len(lines) :
        /\ StartsStructured(Strip(lines[i]))
        /\ JsonLoads(Strip(lines[i])).ok}

\* second loop: the lines that are not blank
NonBlank(lines) == {i \in 1..Len(lines) : Strip(lines[i]) # <<>>}

Max(S) == CHOOSE m \in S : \A x \in S : m >= x

\* (variant) the last fallback returns the text without its escape sequences
parse_fabric_output_ReturnsClean(output) ==
    LET clean_output == StripAnsi(output)
        lines == Split(Strip(clean_output))
    IN  IF ForwardHits(lines) # {}
        THEN JsonLoads(Strip(lines[Min(ForwardHits(lines))])).val
        ELSE IF NonBlank(lines) # {}
             THEN LET line == Strip(lines[Max(NonBlank(lines))])
                  IN  IF JsonLoads(line).ok THEN JsonLoads(line).val ELSE PyStr(line)
             ELSE PyStr(clean_output)

parse_fabric_output(output) ==
    LET clean_output == StripAnsi(output)
        lines == Split(Strip(clean_output))
    IN  IF ForwardHits(lines) # {}
        THEN JsonLoads(Strip(lines[Min(ForwardHits(lines))])).val
        ELSE IF NonBlank(lines) # {}
             THEN LET line == Strip(lines[Max(NonBlank(lines))])
                  IN  IF JsonLoads(line).ok THEN JsonLoads(line).val ELSE PyStr(line)
             ELSE PyStr(output)

----------------------------------------------------------------------------
(* FabricGateway.invoke_chaincode / query_chaincode                        *)
(* The transport (subprocess.run of the peer CLI) ends in one of:          *)
(*   exit       the process exited: returncode, stdout, stderr             *)
(*   timeout    subprocess.TimeoutExpired                                  *)
(*   exception  any other exception of the call                            *)

InvokeTimeout == 30
QueryTimeout == 15

Exited(rc, out) == [kind |-> "exit", returncode |-> rc, stdout |-> out]
TimedOut == [kind |-> "timeout", returncode |-> 0, stdout |-> <<>>]
Threw == [kind |-> "exception", returncode |-> 0, stdout |-> <<>>]

\* the dict a gateway call returns
GwSuccessOutput(out) == [success |-> TRUE, output |-> out, data |-> PyStr(<<>>), error |-> "none"]
GwSuccessData(d) == [success |-> TRUE, output |-> <<>>, data |-> d, error |-> "none"]
GwFailure(e) == [success |-> FALSE, output |-> <<>>, data |-> PyStr(<<>>), error |-> e]

\* a gateway call returns its dict, or an exception leaves the call
GwReturned(r) == [raised |-> FALSE, result |-> r]
GwRaised == [raised |-> TRUE, result |-> GwFailure("raised")]

\* (variant) without the final "except Exception" clause
invoke_chaincode_NoCatchAll(t) ==
    IF t.kind = "exit"
    THEN IF t.returncode # 0
         THEN GwReturned(GwFailure("stderr"))
         ELSE GwReturned(GwSuccessOutput(t.stdout))
    ELSE IF t.kind = "timeout"
         THEN GwReturned(GwFailure("Transaction timeout"))
         ELSE GwRaised

invoke_chaincode(t) ==
    IF t.kind = "exit"
    THEN IF t.returncode # 0
         THEN GwReturned(GwFailure("stderr"))
         ELSE GwReturned(GwSuccessOutput(t.stdout))
    ELSE IF t.kind = "timeout"
         THEN GwReturned(GwFailure("Transaction timeout"))
         ELSE GwReturned(GwFailure("exception"))

query_chaincode(t) ==
    IF t.kind = "exit"
    THEN IF t.returncode # 0
         THEN GwReturned(GwFailure("stderr"))
         ELSE GwReturned(GwSuccessData(parse_fabric_output(t.stdout)))
    ELSE IF t.kind = "timeout"
         THEN GwReturned(GwFailure("Query timeout"))
         ELSE GwReturned(GwFailure("exception"))

NotEnded == [kind |-> "none", returncode |-> 0, stdout |-> <<>>]
NoReturn == GwReturned(GwFailure("not-returned"))

GwIdle ==
    /\ gw_call = "idle"
    /\ gw_clock = 0
    /\ gw_tx = "none"
    /\ gw_end = NotEnded
    /\ gw_ret = NoReturn
    /\ gw_last = "none"
    /\ gw_calls = 0
    /\ gw_height = 0

----------------------------------------------------------------------------
(* VPSAAggregator                                                          *)

\* [w[key] for w in ws if key in w]
Collect(ws, key) ==
    LET H == SelectSeq(ws, LAMBDA w : key \in DOMAIN w)
    IN  [i \in 1..Len(H) |-> H[i][key]]

\* zip(*values): one tuple per index up to the shortest list
ZipStar(values) ==
    LET n == Min({Len(values[i].v) : i \in 1..Len(values)})
    IN  [j \in 1..n |-> [i \in 1..Len(values) |-> values[i].v[j]]]

\* (variant) a scalar among the lists is taken as an empty list instead of
\* raising
ZipRaises_Coercing(values) == FALSE

\* zip(*values) raises TypeError when an argument is not iterable
ZipRaises(values) == \E i \in 1..Len(values) : ~IsList(values[i])

\* sum(values) raises TypeError when a list is added to a number
SumRaises(values) == \E i \in 1..Len(values) : IsList(values[i])

\* keys enumerated by "for key in ws[0].keys()"
EnumeratedKeys(ws) == DOMAIN ws[1]

\* [sum(x)/len(x) * weight for x in zip(*values)]
ListMean(values, weight) ==
    LET cols == ZipStar(values)
    IN  VecR([j \in 1..Len(cols) |-> RatMul(Mean(cols[j]), weight)])

\* sum(values) / len(values) * weight
ScalarMean(values, weight) ==
    NumR(RatMul(Mean([i \in 1..Len(values) |-> values[i].n]), weight))

\* outcome of the loop body for one key: the value stored, or an exception
KeyStored(x) == [ok |-> TRUE, val |-> x]
KeyRaised == [ok |-> FALSE, val |-> Num(0)]

\* body of the loop over one group when the key is not yet in aggregated
GroupKey(values, weight) ==
    IF IsList(values[1])
    THEN IF ZipRaises(values) THEN KeyRaised ELSE KeyStored(ListMean(values, weight))
    ELSE IF SumRaises(values) THEN KeyRaised ELSE KeyStored(ScalarMean(values, weight))

\* [a + (sum(x)/len(x) * target_weight) for a, x in zip(aggregated[key], zip(*values))]
ListMerge(acc, values, weight) ==
    LET t == ListMean(values, weight).v
        n == Min({Len(acc.v), Len(t)})
    IN  VecR([j \in 1..n |-> RatAdd(acc.v[j], t[j])])

\* body of the target loop when the key is already in aggregated
MergeKey(acc, values, weight) ==
    IF IsList(values[1])
    THEN IF ZipRaises(values) \/ ~IsList(acc)
         THEN KeyRaised
         ELSE KeyStored(ListMerge(acc, values, weight))
    ELSE IF SumRaises(values) \/ IsList(acc)
         THEN KeyRaised
         ELSE KeyStored(NumR(RatAdd(acc.n, ScalarMean(values, weight).n)))

\* the weights of the models of one group, in list order
GroupWeights(models, isSource) ==
    LET G == SelectSeq(models, LAMBDA m : (m.rec.domain = "source") = isSource)
    IN  [i \in 1..Len(G) |-> LoadsMap(G[i].rec.weights)]

\* "if source_weights: for key in source_weights[0].keys(): ..."
\* a function from the enumerated keys to the outcome of each key
SourceStage(source_weights, weight) ==
    IF source_weights = <<>> THEN EmptyMap
    ELSE [key \in EnumeratedKeys(source_weights) |->
            GroupKey(Collect(source_weights, key), weight)]

\* "if target_weights: for key in target_weights[0].keys(): ..."
TargetStage(aggregated, target_weights, weight) ==
    IF target_weights = <<>> THEN EmptyMap
    ELSE [key \in EnumeratedKeys(target_weights) |->
            IF key \in DOMAIN aggregated
            THEN MergeKey(aggregated[key], Collect(target_weights, key), weight)
            ELSE GroupKey(Collect(target_weights, key), weight)]

aggregate_weights(models, sw, tw) ==
    IF \E i \in 1..Len(models) : ~IsDict(models[i])
    THEN Raised("AttributeError")
    ELSE
    LET source_weights == GroupWeights(models, TRUE)
        target_weights == GroupWeights(models, FALSE)
        src == SourceStage(source_weights, sw)
    IN  IF \E k \in DOMAIN src : ~src[k].ok THEN Raised("TypeError")
        ELSE
        LET aggregated == [k \in DOMAIN src |-> src[k].val]
            tgt == TargetStage(aggregated, target_weights, tw)
        IN  IF \E k \in DOMAIN tgt : ~tgt[k].ok THEN Raised("TypeError")
            ELSE Returned(DumpsMap(
                    [k \in DOMAIN aggregated \cup DOMAIN tgt |->
                        IF k \in DOMAIN tgt THEN tgt[k].val ELSE aggregated[k]]))

\* [sum(x)/len(x) for x in zip(*values)]
PrototypeListMean(values) ==
    LET cols == ZipStar(values)
    IN  VecR([j \in 1..Len(cols) |-> Mean(cols[j])])

\* sum(values) / len(values)
PrototypeScalarMean(values) ==
    NumR(Mean([i \in 1..Len(values) |-> values[i].n]))

\* body of the loop over the prototype keys
PrototypeKey(values) ==
    IF IsList(values[1])
    THEN IF ZipRaises(values) THEN KeyRaised ELSE KeyStored(PrototypeListMean(values))
    ELSE IF SumRaises(values) THEN KeyRaised ELSE KeyStored(PrototypeScalarMean(values))

\* "if all_prototypes: for key in all_prototypes[0].keys(): ..."
PrototypeStage(all_prototypes) ==
    IF all_prototypes = <<>> THEN EmptyMap
    ELSE [key \in EnumeratedKeys(all_prototypes) |->
            PrototypeKey(Collect(all_prototypes, key))]

aggregate_prototypes(models, alignment_weight) ==
    IF \E i \in 1..Len(models) : ~IsDict(models[i])
    THEN Raised("AttributeError")
    ELSE
    LET all_prototypes == [i \in 1..Len(models) |-> LoadsMap(models[i].rec.prototypes)]
        out == PrototypeStage(all_prototypes)
    IN  IF \E k \in DOMAIN out : ~out[k].ok THEN Raised("TypeError")
        ELSE Returned(DumpsMap([k \in DOMAIN out |-> out[k].val]))

\* [m.get(field, 0) for m in local_models]
FieldOf(models, field) ==
    [i \in 1..Len(models) |->
        IF field = "accuracy" THEN models[i].rec.accuracy
        ELSE IF field = "loss" THEN models[i].rec.loss
        ELSE models[i].rec.alignmentLoss]

\* (variant) the alignment score is clamped at 0
compute_metrics_Clamped(models) ==
    IF \E i \in 1..Len(models) : ~IsDict(models[i])
    THEN [ok |-> FALSE, global_accuracy |-> Zero, global_loss |-> Zero, alignment_score |-> Zero]
    ELSE
    LET accuracies == FieldOf(models, "accuracy")
        losses == FieldOf(models, "loss")
        alignment_losses == FieldOf(models, "alignmentLoss")
        score == RatSub(Rat(1), Mean(alignment_losses))
    IN  [ok |-> TRUE,
         global_accuracy |-> IF accuracies # <<>> THEN Mean(accuracies) ELSE Zero,
         global_loss |-> IF losses # <<>> THEN Mean(losses) ELSE Zero,
         alignment_score |-> IF alignment_losses # <<>>
                             THEN (IF score[1] < 0 THEN Zero ELSE score) ELSE Zero]

compute_metrics(models) ==
    IF \E i \in 1..Len(models) : ~IsDict(models[i])
    THEN [ok |-> FALSE, global_accuracy |-> Zero, global_loss |-> Zero, alignment_score |-> Zero]
    ELSE
    LET accuracies == FieldOf(models, "accuracy")
        losses == FieldOf(models, "loss")
        alignment_losses == FieldOf(models, "alignmentLoss")
    IN  [ok |-> TRUE,
         global_accuracy |-> IF accuracies # <<>> THEN Mean(accuracies) ELSE Zero,
         global_loss |-> IF losses # <<>> THEN Mean(losses) ELSE Zero,
         alignment_score |-> IF alignment_losses # <<>>
                             THEN RatSub(Rat(1), Mean(alignment_losses)) ELSE Zero]

MetricsNotRun ==
    [ok |-> FALSE, global_accuracy |-> Zero, global_loss |-> Zero, alignment_score |-> Zero]

NotParsed == [ty |-> "none", n |-> 0, text |-> <<>>, rec |-> NoRec]

PureIdle ==
    /\ metrics_in = <<>>
    /\ metrics_out = MetricsNotRun
    /\ raw_output = <<>>
    /\ parsed_out = NotParsed

----------------------------------------------------------------------------
(* The /api/aggregate handler: aggregate_models                            *)

\* json.dumps(model_ids) and its decoding by a reader of the ledger
DumpsIds(ids) == [enc |-> "json", ids |-> ids]
LoadsIds(s) == s.ids

\* str(x) of a number
StrOf(x) == [str |-> x]

NoArgs == [provenance |-> DumpsIds(<<>>), weights |-> DumpsMap(EmptyMap),
           prototypes |-> DumpsMap(EmptyMap),
           accuracy |-> StrOf(Zero), loss |-> StrOf(Zero), alignment |-> StrOf(Zero),
           set |-> FALSE]

NoResponse == [status |-> 0, body |-> "none"]
Response(st, b) == [status |-> st, body |-> b]

RoundIdle ==
    /\ pc = "idle"
    /\ model_ids = <<>>
    /\ cursor = 0
    /\ local_models = <<>>
    /\ invoke_args = NoArgs
    /\ response = NoResponse
    /\ query_log = <<>>
    /\ call_log = <<>>
    /\ chain = <<>>

\* (variant) an undecodable string payload is kept instead of skipped
KeepModel_NoContinue(models, result) ==
    IF result.success THEN Append(models, result.data) ELSE models

\* lines 379-386: what one query result does to the working set
KeepModel(models, result) ==
    IF result.success
    THEN LET model_data == result.data
         IN  IF IsStr(model_data)
             THEN IF JsonLoads(model_data.text).ok
                  THEN Append(models, JsonLoads(model_data.text).val)
                  ELSE models
             ELSE Append(models, model_data)
    ELSE models

\* (variant) the emptiness test of the working set is missing
NoValidModels_Unchecked(models) == FALSE

\* line 388: "if not local_models"
NoValidModels(models) == models = <<>>

\* (variant) provenance built from the models that resolved
InvokeArgs_Resolved(ids, models, w, p, metrics) ==
    [provenance |-> DumpsIds([i \in 1..Len(models) |-> models[i].rec.modelID]),
     weights |-> w, prototypes |-> p,
     accuracy |-> StrOf(metrics.global_accuracy),
     loss |-> StrOf(metrics.global_loss),
     alignment |-> StrOf(metrics.alignment_score),
     set |-> TRUE]

\* lines 396-403: the args of the AggregateModels invoke
InvokeArgs(ids, models, w, p, metrics) ==
    [provenance |-> DumpsIds(ids),
     weights |-> w, prototypes |-> p,
     accuracy |-> StrOf(metrics.global_accuracy),
     loss |-> StrOf(metrics.global_loss),
     alignment |-> StrOf(metrics.alignment_score),
     set |-> TRUE]

\* ---- the ledger and the transport, as far as a round meets them ----

ModelIds == {"m1", "m2", "m3"}

\* the record SubmitLocalModel stored under each id
LedgerModel(id) ==
    IF id = "m1"
    THEN [modelID |-> "m1", domain |-> "source",
          weights |-> DumpsMap([k \in {"a"} |-> Num(2)]),
          prototypes |-> DumpsMap([k \in {"a"} |-> Vec(<<1, 3>>)]),
          accuracy |-> <<9, 10>>, loss |-> <<1, 10>>, alignmentLoss |-> <<1, 10>>, dataSize |-> 1000]
    ELSE IF id = "m2"
    THEN [modelID |-> "m2", domain |-> "source",
          weights |-> DumpsMap([k \in {"a", "b"} |-> IF k = "a" THEN Num(6) ELSE Num(4)]),
          prototypes |-> DumpsMap([k \in {"a"} |-> Vec(<<3, 5>>)]),
          accuracy |-> <<4, 5>>, loss |-> <<1, 5>>, alignmentLoss |-> <<3, 2>>, dataSize |-> 950]
    ELSE [modelID |-> "m3", domain |-> "target",
          weights |-> DumpsMap([k \in {"a"} |-> Num(4)]),
          prototypes |-> DumpsMap([k \in {"a"} |-> Num(2)]),
          accuracy |-> <<3, 5>>, loss |-> <<2, 5>>, alignmentLoss |-> <<1, 5>>, dataSize |-> 800]

\* stdout of a GetLocalModel query that carries the record: one payload line
\* amid colour codes and log lines, or the record as a JSON string literal
RecordTexts(id) ==
    {<<Esc, Word("plain"), Nl, JsonObj(LedgerModel(id)), Nl, Word("plain"), Nl>>,
     <<JsonStr(JsonObj(LedgerModel(id))), Nl>>}

\* stdout with nothing that decodes
UnparseableTexts == {<<Word("plain"), Nl>>, <<>>}

\* stdout that decodes to something that is not a record
NonRecordTexts == {<<JsonNum(42), Nl>>}

QueryTransports(id) ==
    {Exited(1, <<>>), TimedOut, Threw} \cup
    {Exited(0, out) : out \in RecordTexts(id) \cup UnparseableTexts \cup NonRecordTexts}

\* how an invoke ends, and whether the ledger commits the transaction
InvokeEndings ==
    {[t |-> Exited(0, <<Word("plain"), Nl>>), committed |-> TRUE],
     [t |-> Exited(1, <<>>), committed |-> FALSE],
     [t |-> TimedOut, committed |-> FALSE],
     [t |-> TimedOut, committed |-> TRUE],
     [t |-> Threw, committed |-> FALSE]}

IdLists == UNION {[1..n -> ModelIds] : n \in 0..MaxIds}

Call(fn, arg) == [fn |-> fn, arg |-> arg]

\* lines 367-374: the request arrives
ReceiveRequest ==
    /\ pc = "idle"
    /\ \E ids \in IdLists :
        /\ model_ids' = ids
        /\ IF ids = <<>>
           THEN /\ response' = Response(400, "No models provided")
                /\ pc' = "done"
                /\ cursor' = 0
           ELSE /\ response' = response
                /\ pc' = "query"
                /\ cursor' = 1
    /\ UNCHANGED <<local_models, invoke_args, query_log, call_log, chain, aggVars, gwVars, pureVars>>

\* (variant) an exception of the aggregation does not stop the handler
AfterLoop_IgnoresAggError(ids, models, sw, tw) ==
    IF NoValidModels(models)
    THEN [pc |-> "done", response |-> Response(404, "No valid models found"), args |-> NoArgs]
    ELSE LET w == aggregate_weights(models, sw, tw)
             p == aggregate_prototypes(models, Zero)
             metrics == compute_metrics(models)
         IN  [pc |-> "invoke", response |-> NoResponse,
              args |-> InvokeArgs(ids, models, w.val, p.val, metrics)]

\* lines 388-403, once the loop is over: the handler up to its next gateway
\* call, as [pc, response, invoke_args]
AfterLoop(ids, models, sw, tw) ==
    IF NoValidModels(models)
    THEN [pc |-> "done", response |-> Response(404, "No valid models found"), args |-> NoArgs]
    ELSE LET w == aggregate_weights(models, sw, tw)
             p == aggregate_prototypes(models, Zero)
             metrics == compute_metrics(models)
         IN  IF ~w.ok \/ ~p.ok \/ ~metrics.ok
             THEN [pc |-> "done", response |-> Response(500, "exception"), args |-> NoArgs]
             ELSE [pc |-> "invoke", response |-> NoResponse,
                   args |-> InvokeArgs(ids, models, w.val, p.val, metrics)]

\* lines 377-386: one iteration of the loop, a blocking query; after the last
\* id the handler runs on to the invoke or to its response
QueryModel ==
    /\ pc = "query"
    /\ \E t \in QueryTransports(model_ids[cursor]) :
        LET id == model_ids[cursor]
            g == query_chaincode(t)
            kept == KeepModel(local_models, g.result)
            next == AfterLoop(model_ids, kept, source_weight, target_weight)
        IN  /\ query_log' = Append(query_log, [id |-> id, t |-> t])
            /\ call_log' = Append(call_log, Call("query", id))
            /\ IF g.raised
               THEN /\ pc' = "done"
                    /\ response' = Response(500, "exception")
                    /\ UNCHANGED <<local_models, cursor, invoke_args>>
               ELSE /\ local_models' = kept
                    /\ cursor' = cursor + 1
                    /\ IF cursor < Len(model_ids)
                       THEN UNCHANGED <<pc, response, invoke_args>>
                       ELSE /\ pc' = next.pc
                            /\ response' = next.response
                            /\ invoke_args' = next.args
    /\ UNCHANGED <<model_ids, chain, aggVars, gwVars, pureVars>>

\* lines 405-414: the blocking invoke and the response
InvokeAggregate ==
    /\ pc = "invoke"
    /\ \E e \in InvokeEndings :
        LET g == invoke_chaincode(e.t)
        IN  /\ call_log' = Append(call_log, Call("invoke", "AggregateModels"))
            /\ chain' = IF e.committed THEN Append(chain, invoke_args.provenance) ELSE chain
            /\ response' = IF g.raised THEN Response(500, "exception")
                           ELSE IF g.result.success
                                THEN Response(200, "Models aggregated successfully")
                                ELSE Response(500, g.result.error)
            /\ pc' = "done"
    /\ UNCHANGED <<model_ids, cursor, local_models, invoke_args, query_log, aggVars, gwVars, pureVars>>

AggIdle ==
    /\ agg_models = <<>>
    /\ source_weight = <<3, 5>>
    /\ target_weight = <<2, 5>>
    /\ agg_weights_out = NotRun
    /\ agg_protos_out = NotRun

Init == RoundIdle /\ AggIdle /\ GwIdle /\ PureIdle

Next == ReceiveRequest \/ QueryModel \/ InvokeAggregate

Spec == Init /\ [][Next]_vars

----------------------------------------------------------------------------
(* One gateway call at a time, step by step, with the peer CLI process and *)
(* the ledger                                                              *)

\* timeout=30 of the invoke, timeout=15 of the query
Deadline(call) == IF call = "invoke" THEN InvokeTimeout ELSE QueryTimeout

GatewayCall(call, t) == IF call = "invoke" THEN invoke_chaincode(t) ELSE query_chaincode(t)

\* the call ends: its transport ended as t
EndCall(t) ==
    /\ gw_end' = t
    /\ gw_ret' = GatewayCall(gw_call, t)
    /\ gw_last' = gw_call
    /\ gw_call' = "idle"

\* invoke_chaincode is called: subprocess.run starts "peer chaincode invoke"
BeginInvoke ==
    /\ gw_call = "idle"
    /\ gw_calls < MaxCalls
    /\ gw_call' = "invoke"
    /\ gw_clock' = 0
    /\ gw_tx' = "none"
    /\ gw_calls' = gw_calls + 1
    /\ UNCHANGED <<gw_end, gw_ret, gw_last, gw_height, aggVars, roundVars, pureVars>>

\* query_chaincode is called: subprocess.run starts "peer chaincode query"
BeginQuery ==
    /\ gw_call = "idle"
    /\ gw_calls < MaxCalls
    /\ gw_call' = "query"
    /\ gw_clock' = 0
    /\ gw_calls' = gw_calls + 1
    /\ UNCHANGED <<gw_tx, gw_end, gw_ret, gw_last, gw_height, aggVars, roundVars, pureVars>>

\* a time unit passes while subprocess.run waits for the process
Tick ==
    /\ gw_call # "idle"
    /\ gw_clock < Deadline(gw_call)
    /\ gw_clock' = gw_clock + 1
    /\ UNCHANGED <<gw_call, gw_tx, gw_end, gw_ret, gw_last, gw_calls, gw_height, aggVars, roundVars, pureVars>>

\* the peer CLI hands the endorsed transaction to the ordering service
SubmitToOrderer ==
    /\ gw_call = "invoke"
    /\ gw_tx = "none"
    /\ gw_tx' = "submitted"
    /\ UNCHANGED <<gw_call, gw_clock, gw_end, gw_ret, gw_last, gw_calls, gw_height, aggVars, roundVars, pureVars>>

\* the ledger commits a submitted transaction in a new block; the ledger does
\* this on its own, whether or not the peer CLI is still there
Commit ==
    /\ gw_tx = "submitted"
    /\ gw_tx' = "committed"
    /\ gw_height' = gw_height + 1
    /\ UNCHANGED <<gw_call, gw_clock, gw_end, gw_ret, gw_last, gw_calls, aggVars, roundVars, pureVars>>

GwStdouts == RecordTexts("m1") \cup UnparseableTexts \cup NonRecordTexts

\* the process exits with status 0; with --waitForEvent the invoke does so
\* only once it saw the commit
ExitZero ==
    /\ gw_call # "idle"
    /\ gw_call = "invoke" => gw_tx = "committed"
    /\ \E out \in GwStdouts : EndCall(Exited(0, out))
    /\ UNCHANGED <<gw_clock, gw_tx, gw_calls, gw_height, aggVars, roundVars, pureVars>>

\* the process exits with a non-zero status before anything was submitted
ExitNonZero ==
    /\ gw_call # "idle"
    /\ gw_call = "invoke" => gw_tx = "none"
    /\ EndCall(Exited(1, <<>>))
    /\ UNCHANGED <<gw_clock, gw_tx, gw_calls, gw_height, aggVars, roundVars, pureVars>>

\* the deadline passes: subprocess.run kills the process and raises
\* TimeoutExpired; a transaction already submitted stays with the orderer
DeadlineExpires ==
    /\ gw_call # "idle"
    /\ gw_clock = Deadline(gw_call)
    /\ EndCall(TimedOut)
    /\ UNCHANGED <<gw_clock, gw_tx, gw_calls, gw_height, aggVars, roundVars, pureVars>>

\* subprocess.run raises another exception (the program is missing, output
\* that does not decode) before anything was submitted
TransportThrows ==
    /\ gw_call # "idle"
    /\ gw_call = "invoke" => gw_tx = "none"
    /\ EndCall(Threw)
    /\ UNCHANGED <<gw_clock, gw_tx, gw_calls, gw_height, aggVars, roundVars, pureVars>>

GatewayInit == RoundIdle /\ AggIdle /\ GwIdle /\ PureIdle

GatewayNext ==
    \/ BeginInvoke \/ BeginQuery \/ Tick \/ SubmitToOrderer \/ Commit
    \/ ExitZero \/ ExitNonZero \/ DeadlineExpires \/ TransportThrows

SpecGateway == GatewayInit /\ [][GatewayNext]_vars

----------------------------------------------------------------------------
(* Inputs of the aggregator specification                                  *)

Keys == {"a", "b"}

\* values a model may hold under key "a" and under key "b"
ValuesA == {Num(2), Num(6), Vec(<<1, 3>>), Vec(<<3, 5>>), Vec(<<4>>)}
ValuesB == {Num(4)}

MapPool ==
    {EmptyMap} \cup
    {[k \in {"a"} |-> x] : x \in ValuesA} \cup
    {[k \in {"b"} |-> y] : y \in ValuesB} \cup
    {[k \in Keys |-> IF k = "a" THEN x ELSE y] : x \in ValuesA, y \in ValuesB}

\* a model record as stored by SubmitLocalModel; the aggregator functions of
\* this specification read domain, weights and prototypes only, and each
\* function reads one mapping, so both mappings range over the same pool
ModelRecord(d, m) ==
    [modelID |-> "m", domain |-> d, weights |-> DumpsMap(m), prototypes |-> DumpsMap(m),
     accuracy |-> Zero, loss |-> Zero, alignmentLoss |-> Zero, dataSize |-> 0]

ModelPool == {PyObj(ModelRecord(d, m)) : d \in {"source", "target"}, m \in MapPool}

\* (source_weight, target_weight) pairs: the defaults 0.6 / 0.4 and another
WeightPool == {<<(<<3, 5>>), (<<2, 5>>)>>, <<(<<1, 5>>), (<<4, 5>>)>>}

ModelLists == UNION {[1..n -> ModelPool] : n \in 0..MaxModels}

AggInit ==
    /\ RoundIdle
    /\ GwIdle
    /\ PureIdle
    /\ agg_models \in ModelLists
    /\ \E w \in WeightPool : source_weight = w[1] /\ target_weight = w[2]
    /\ agg_weights_out = NotRun
    /\ agg_protos_out = NotRun

RunAggregateWeights ==
    /\ agg_weights_out = NotRun
    /\ agg_weights_out' = aggregate_weights(agg_models, source_weight, target_weight)
    /\ UNCHANGED <<agg_models, source_weight, target_weight, agg_protos_out, roundVars, gwVars, pureVars>>

RunAggregatePrototypes ==
    /\ agg_protos_out = NotRun
    /\ agg_protos_out' = aggregate_prototypes(agg_models, Zero)
    /\ UNCHANGED <<agg_models, source_weight, target_weight, agg_weights_out, roundVars, gwVars, pureVars>>

AggNext == RunAggregateWeights \/ RunAggregatePrototypes

SpecAgg == AggInit /\ [][AggNext]_vars

----------------------------------------------------------------------------
(* Reference notions used to state the aggregation claims                  *)

WeightsRan == agg_weights_out # NotRun
ProtosRan == agg_protos_out # NotRun

SourceMaps == GroupWeights(agg_models, TRUE)
TargetMaps == GroupWeights(agg_models, FALSE)
ProtoMaps == [i \in 1..Len(agg_models) |-> LoadsMap(agg_models[i].rec.prototypes)]

\* the key appears in at least one mapping of the group
Appears(ws, key) == \E i \in 1..Len(ws) : key \in DOMAIN ws[i]

\* every value of the key in the group has the same type and length
SameShape(ws, key) ==
    \A i, j \in 1..Len(ws) :
        (key \in DOMAIN ws[i] /\ key \in DOMAIN ws[j]) =>
            /\ ws[i][key].ty = ws[j][key].ty
            /\ Len(ws[i][key].v) = Len(ws[j][key].v)

\* the values of the key in the group are all lists, of differing lengths
ListLengthsDiffer(ws, key) ==
    /\ \A i \in 1..Len(ws) : key \in DOMAIN ws[i] => IsList(ws[i][key])
    /\ \E i, j \in 1..Len(ws) :
        /\ key \in DOMAIN ws[i] /\ key \in DOMAIN ws[j]
        /\ Len(ws[i][key].v) # Len(ws[j][key].v)

\* the key has a scalar value in one mapping of the group and a list in another
TypesDiffer(ws, key) ==
    \E i, j \in 1..Len(ws) :
        /\ key \in DOMAIN ws[i] /\ key \in DOMAIN ws[j]
        /\ ws[i][key].ty # ws[j][key].ty

\* arithmetic mean (elementwise for lists) of the key over exactly the
\* mappings of the group that have it; the group's values have one shape
RefMean(ws, key) ==
    LET vals == Collect(ws, key)
    IN  IF vals[1].ty = "num"
        THEN NumR(Mean([i \in 1..Len(vals) |-> vals[i].n]))
        ELSE VecR([j \in 1..Len(vals[1].v) |-> Mean([i \in 1..Len(vals) |-> vals[i].v[j]])])

RefScale(x, w) ==
    IF x.ty = "num" THEN NumR(RatMul(x.n, w))
    ELSE VecR([j \in 1..Len(x.v) |-> RatMul(x.v[j], w)])

RefAdd(x, y) ==
    IF x.ty = "num" THEN NumR(RatAdd(x.n, y.n))
    ELSE VecR([j \in 1..Len(x.v) |-> RatAdd(x.v[j], y.v[j])])

\* weight of a group times the mean of the key over the group
RefContribution(ws, key, w) == RefScale(RefMean(ws, key), w)

\* sum of the contributions of the groups in which the key appears
RefMerged(key, sw, tw) ==
    IF Appears(SourceMaps, key) /\ Appears(TargetMaps, key)
    THEN RefAdd(RefContribution(SourceMaps, key, sw), RefContribution(TargetMaps, key, tw))
    ELSE IF Appears(SourceMaps, key)
         THEN RefContribution(SourceMaps, key, sw)
         ELSE RefContribution(TargetMaps, key, tw)

\* the weights of the snapshot are well formed: one shape per key
WeightsWellShaped == \A key \in Keys : SameShape(SourceMaps \o TargetMaps, key)

MergedWeights == LoadsMap(agg_weights_out.val)
MergedPrototypes == LoadsMap(agg_protos_out.val)

----------------------------------------------------------------------------
(* C6 (as claimed): for each partition and every key that appears in at    *)
(* least one model of the partition, the merged weights contain the key    *)
(* and the partition contributes its weight times the mean of the key over *)
(* exactly the models of the partition that have it.                       *)
C6_EveryKeyOfAPartitionContributes ==
    (WeightsRan /\ WeightsWellShaped) =>
        /\ agg_weights_out.ok
        /\ \A key \in Keys :
            (Appears(SourceMaps, key) \/ Appears(TargetMaps, key)) =>
                /\ key \in DOMAIN MergedWeights
                /\ MergedWeights[key] = RefMerged(key, source_weight, target_weight)

(* C7 (as claimed): a key present in both groups merges to the sum of the  *)
(* two contributions; a key present only in the target group merges to the *)
(* target contribution alone, whatever sourceWeight is, and symmetrically  *)
(* for a key present only in the source group.                             *)
C7_MergeIsSumWherePresent ==
    (WeightsRan /\ WeightsWellShaped) =>
        \A key \in Keys :
            /\ (Appears(SourceMaps, key) /\ Appears(TargetMaps, key)) =>
                /\ key \in DOMAIN MergedWeights
                /\ MergedWeights[key] =
                     RefAdd(RefContribution(SourceMaps, key, source_weight),
                            RefContribution(TargetMaps, key, target_weight))
            /\ (~Appears(SourceMaps, key) /\ Appears(TargetMaps, key)) =>
                \A w \in WeightPool :
                    LET r == aggregate_weights(agg_models, w[1], target_weight)
                    IN  /\ r.ok
                        /\ key \in DOMAIN LoadsMap(r.val)
                        /\ LoadsMap(r.val)[key] = RefContribution(TargetMaps, key, target_weight)
            /\ (Appears(SourceMaps, key) /\ ~Appears(TargetMaps, key)) =>
                \A w \in WeightPool :
                    LET r == aggregate_weights(agg_models, source_weight, w[2])
                    IN  /\ r.ok
                        /\ key \in DOMAIN LoadsMap(r.val)
                        /\ LoadsMap(r.val)[key] = RefContribution(SourceMaps, key, source_weight)

(* C8 (as claimed): when the list values of a key differ in length across  *)
(* the contributing models (within a partition, or between the source      *)
(* contribution and the target values, or among the prototypes), the call  *)
(* fails with KeyShapeMismatch and returns no merged result.               *)
C8_LengthMismatchIsAnError ==
    /\ (WeightsRan /\ \E key \in Keys : ListLengthsDiffer(SourceMaps \o TargetMaps, key)) =>
            (~agg_weights_out.ok /\ agg_weights_out.err = "KeyShapeMismatch")
    /\ (ProtosRan /\ \E key \in Keys : ListLengthsDiffer(ProtoMaps, key)) =>
            (~agg_protos_out.ok /\ agg_protos_out.err = "KeyShapeMismatch")

\* an enumerated key of the weights aggregation whose contributing values
\* mix a scalar and a list: within the source group, within the target
\* group, or between the source contribution and the target values
MixedWeightsKey(key) ==
    \/ SourceMaps # <<>> /\ key \in EnumeratedKeys(SourceMaps) /\ TypesDiffer(SourceMaps, key)
    \/ TargetMaps # <<>> /\ key \in EnumeratedKeys(TargetMaps) /\ TypesDiffer(TargetMaps, key)
    \/ /\ SourceMaps # <<>> /\ key \in EnumeratedKeys(SourceMaps)
       /\ TargetMaps # <<>> /\ key \in EnumeratedKeys(TargetMaps)
       /\ TypesDiffer(SourceMaps \o TargetMaps, key)

MixedPrototypeKey(key) ==
    ProtoMaps # <<>> /\ key \in EnumeratedKeys(ProtoMaps) /\ TypesDiffer(ProtoMaps, key)

(* C9: when an enumerated key has a scalar value in one contributing model *)
(* and a list value in another, the aggregation call ends with an error    *)
(* and returns no merged mapping; nothing is coerced into a result.        *)
C9_MixedTypesAreRejected ==
    /\ (WeightsRan /\ \E key \in Keys : MixedWeightsKey(key)) =>
            (~agg_weights_out.ok /\ agg_weights_out.err = "TypeError")
    /\ (ProtosRan /\ \E key \in Keys : MixedPrototypeKey(key)) =>
            (~agg_protos_out.ok /\ agg_protos_out.err = "TypeError")

\* both aggregations ran on a snapshot with a mixed key in each kind of
\* place, and both ended with the error
C9_Witness ==
    /\ WeightsRan /\ ProtosRan
    /\ Len(SourceMaps) >= 1 /\ Len(TargetMaps) >= 1
    /\ \E key \in Keys :
        /\ key \in EnumeratedKeys(SourceMaps) /\ key \in EnumeratedKeys(TargetMaps)
        /\ ~TypesDiffer(SourceMaps, key) /\ ~TypesDiffer(TargetMaps, key)
        /\ TypesDiffer(SourceMaps \o TargetMaps, key)
        /\ MixedPrototypeKey(key)
    /\ agg_weights_out.err = "TypeError"
    /\ agg_protos_out.err = "TypeError"

\* the list reordered by the permutation p of its indices
Permuted(xs, p) == [i \in 1..Len(xs) |-> xs[p[i]]]

(* C10 (as claimed): aggregate_prototypes gives the same merged mapping    *)
(* for every reordering of the input model list.                           *)
C10_PrototypesPermutationInvariant ==
    ProtosRan =>
        \A p \in Permutations(1..Len(agg_models)) :
            aggregate_prototypes(Permuted(agg_models, p), Zero) = agg_protos_out

----------------------------------------------------------------------------
(* Reference notions used to state the claims about a round                *)

\* the query of a log entry failed: no exit, or a non-zero exit
QueryFailed(e) == e.t.kind # "exit" \/ e.t.returncode # 0

\* the query succeeded and its payload is unparseable
PayloadUnparseable(e) == ~QueryFailed(e) /\ e.t.stdout \in UnparseableTexts

\* the query succeeded and its payload is the stored record
ResolvesToRecord(e) == ~QueryFailed(e) /\ e.t.stdout \in RecordTexts(e.id)

Dropped(e) == QueryFailed(e) \/ PayloadUnparseable(e)

\* what the transport delivered for an entry that is not dropped
Delivered(e) == IF ResolvesToRecord(e) THEN PyObj(LedgerModel(e.id)) ELSE PyNum(42)

\* the payloads of the entries that are not dropped, in query order
RemainingModels ==
    LET kept == SelectSeq(query_log, LAMBDA e : ~Dropped(e))
    IN  [i \in 1..Len(kept) |-> Delivered(kept[i])]

RequestedIds == [i \in 1..Len(query_log) |-> query_log[i].id]

LoopDone == pc \in {"invoke", "done"} /\ model_ids # <<>> /\ Len(query_log) = Len(model_ids)

InvokeIssued == \E i \in 1..Len(call_log) : call_log[i].fn = "invoke"

(* C1: an id whose query fails or whose payload is unparseable is dropped  *)
(* from the working set and nothing else happens to the round: the working *)
(* set is the remaining payloads in order, and when an id is dropped while *)
(* another resolves to a record the round does not end with "No valid      *)
(* models found" but aggregates over the remaining models (the invoke args *)
(* are their aggregate, or the round ends with the aggregator's own        *)
(* exception on them).                                                     *)
C1_DroppedIdsDoNotAbortTheRound ==
    /\ pc \in {"query", "invoke", "done"} => local_models = RemainingModels
    /\ (/\ LoopDone
        /\ \E i \in 1..Len(query_log) : Dropped(query_log[i])
        /\ \E i \in 1..Len(query_log) : ResolvesToRecord(query_log[i])) =>
            LET w == aggregate_weights(RemainingModels, source_weight, target_weight)
                p == aggregate_prototypes(RemainingModels, Zero)
            IN  IF w.ok /\ p.ok
                THEN /\ invoke_args.set
                     /\ invoke_args.weights = w.val
                     /\ invoke_args.prototypes = p.val
                     /\ pc = "done" => InvokeIssued
                ELSE response = Response(500, "exception")

\* three ids, one failed query and one unparseable payload, and the round
\* committed the aggregate of the one model left
C1_Witness ==
    /\ Len(query_log) = 3 /\ LoopDone
    /\ \E i \in 1..3 : QueryFailed(query_log[i])
    /\ \E i \in 1..3 : PayloadUnparseable(query_log[i])
    /\ Len(local_models) = 1
    /\ response.status = 200
    /\ chain # <<>>

(* C2: whenever the AggregateModels invoke is issued, its provenance       *)
(* argument is the requested list of ids, in the requested order, with the *)
(* ids that were dropped from the working set.                             *)
C2_ProvenanceIsTheRequestedList ==
    (pc = "invoke" \/ InvokeIssued) =>
        /\ invoke_args.set
        /\ LoadsIds(invoke_args.provenance) = model_ids
        /\ LoadsIds(invoke_args.provenance) = RequestedIds
        /\ \A i \in 1..Len(chain) : LoadsIds(chain[i]) = RequestedIds

\* the spec's example: one unreachable id among three, the round commits,
\* and the committed provenance has the three ids
C2_Witness ==
    /\ InvokeIssued
    /\ Len(query_log) = 3
    /\ \E i \in 1..3 : Dropped(query_log[i])
    /\ Len(local_models) = 2
    /\ Len(chain) = 1
    /\ Len(LoadsIds(chain[1])) = 3

(* C3: when every requested id was dropped, the round ends with "No valid  *)
(* models found" (404), builds no aggregate and issues no invoke.          *)
C3_EmptyWorkingSetFails ==
    (LoopDone /\ \A i \in 1..Len(query_log) : Dropped(query_log[i])) =>
        /\ pc = "done"
        /\ response = Response(404, "No valid models found")
        /\ ~invoke_args.set
        /\ ~InvokeIssued
        /\ chain = <<>>

\* two ids or more, all dropped, and the 404
C3_Witness ==
    /\ LoopDone
    /\ Len(query_log) >= 2
    /\ \A i \in 1..Len(query_log) : Dropped(query_log[i])
    /\ \E i \in 1..Len(query_log) : PayloadUnparseable(query_log[i])
    /\ response.status = 404

----------------------------------------------------------------------------
(* Claims about the gateway                                                *)

InvokeEnded == gw_call = "idle" /\ gw_last = "invoke"

(* C4 (as claimed): an invoke that returns success committed a new block,  *)
(* and an invoke that returns failure (non-zero exit, deadline exceeded at *)
(* 30 units, transport exception) committed nothing, also when the         *)
(* deadline expires after the request was submitted to the ordering        *)
(* service.                                                                *)
C4_FailedInvokeCommitsNothing ==
    InvokeEnded =>
        /\ gw_ret.result.success => gw_tx = "committed"
        /\ ~gw_ret.result.success => gw_tx # "committed"

(* C5: every invoke or query gives its caller a tagged result, success     *)
(* with the output or the parsed data, or failure with an error, however   *)
(* the transport ended; no exception leaves the gateway, and no call is    *)
(* still waiting after its deadline (30 units for invoke, 15 for query).   *)
C5_CallsReturnTaggedResults ==
    /\ gw_call = "invoke" => gw_clock <= 30
    /\ gw_call = "query" => gw_clock <= 15
    /\ gw_last # "none" =>
        LET r == gw_ret.result
        IN  /\ ~gw_ret.raised
            /\ IF gw_end.kind = "exit" /\ gw_end.returncode = 0
               THEN /\ r.success
                    /\ r.error = "none"
                    /\ gw_last = "invoke" => r.output = gw_end.stdout
                    /\ gw_last = "query" => r.data.ty \in {"obj", "arr", "num", "str"}
               ELSE /\ ~r.success
                    /\ r.error # "none"
                    /\ gw_end.kind = "timeout" =>
                         r.error \in {"Transaction timeout", "Query timeout"}

\* an invoke that waited until its deadline and returned the timeout failure
C5_Witness ==
    /\ InvokeEnded
    /\ gw_end.kind = "timeout"
    /\ gw_clock = 30
    /\ ~gw_ret.raised
    /\ ~gw_ret.result.success
    /\ gw_ret.result.error = "Transaction timeout"

----------------------------------------------------------------------------
(* compute_metrics applied to every list of models of a pool               *)

\* a model record with the fields compute_metrics and its callers read
MetricsRecord(acc, ls, al, size) ==
    [modelID |-> "m", domain |-> "source",
     weights |-> DumpsMap(EmptyMap), prototypes |-> DumpsMap(EmptyMap),
     accuracy |-> acc, loss |-> ls, alignmentLoss |-> al, dataSize |-> size]

MetricsPool ==
    {PyObj(MetricsRecord(<<9, 10>>, <<1, 10>>, <<1, 10>>, 1000)),
     PyObj(MetricsRecord(<<4, 5>>, <<1, 5>>, <<3, 2>>, 10)),
     PyObj(MetricsRecord(<<1, 2>>, <<1, 2>>, <<11, 10>>, 500)),
     PyObj(MetricsRecord(<<3, 5>>, <<2, 5>>, <<1, 5>>, 1)),
     PyObj(MetricsRecord(Zero, Rat(2), Rat(2), 0))}

MetricsLists == UNION {[1..n -> MetricsPool] : n \in 0..MaxModels}

MetricsInit ==
    /\ RoundIdle /\ AggIdle /\ GwIdle
    /\ metrics_in \in MetricsLists
    /\ metrics_out = MetricsNotRun
    /\ raw_output = <<>>
    /\ parsed_out = NotParsed

RunComputeMetrics ==
    /\ ~metrics_out.ok
    /\ metrics_out' = compute_metrics(metrics_in)
    /\ UNCHANGED <<metrics_in, raw_output, parsed_out, aggVars, roundVars, gwVars>>

MetricsNext == RunComputeMetrics

SpecMetrics == MetricsInit /\ [][MetricsNext]_vars

MetricsRan == metrics_out.ok

\* the sum of a field over the models, each model counted once
RECURSIVE FieldSum(_, _)
FieldSum(ms, field) ==
    IF ms = <<>> THEN Zero
    ELSE RatAdd(IF field = "accuracy" THEN ms[1].rec.accuracy
                ELSE IF field = "loss" THEN ms[1].rec.loss
                ELSE ms[1].rec.alignmentLoss,
                FieldSum(Tail(ms), field))

\* x > 1 for a rational x
AboveOne(x) == x[1] > x[2]

(* C11: for an empty list the three metrics are 0; for a non-empty list    *)
(* global_accuracy and global_loss are the unweighted means of the models' *)
(* fields, whatever their dataSize, and alignment_score is 1 minus the     *)
(* mean alignmentLoss, negative when that mean is above 1.                 *)
C11_MetricsAreUnweightedMeans ==
    MetricsRan =>
        LET n == Len(metrics_in)
        IN  IF n = 0
            THEN /\ metrics_out.global_accuracy = Zero
                 /\ metrics_out.global_loss = Zero
                 /\ metrics_out.alignment_score = Zero
            ELSE /\ RatMul(metrics_out.global_accuracy, Rat(n)) = FieldSum(metrics_in, "accuracy")
                 /\ RatMul(metrics_out.global_loss, Rat(n)) = FieldSum(metrics_in, "loss")
                 /\ RatAdd(RatMul(metrics_out.alignment_score, Rat(n)),
                           FieldSum(metrics_in, "alignmentLoss")) = Rat(n)
                 /\ AboveOne(RatDivInt(FieldSum(metrics_in, "alignmentLoss"), n)) =>
                        metrics_out.alignment_score[1] < 0

\* models of different dataSize whose mean alignmentLoss is 13/10: the score
\* is -3/10
C11_Witness ==
    /\ MetricsRan
    /\ Len(metrics_in) = 2
    /\ metrics_in[1].rec.dataSize # metrics_in[2].rec.dataSize
    /\ RatDivInt(FieldSum(metrics_in, "alignmentLoss"), 2) = <<13, 10>>
    /\ metrics_out.alignment_score = <<-3, 10>>

----------------------------------------------------------------------------
(* parse_fabric_output applied to every text of a pool                     *)

TextAlphabet ==
    {Esc, Sp, Nl, Word("plain"), Word("brace"),
     JsonObj(LedgerModel("m1")), JsonNum(42), JsonStr(Word("plain"))}

IsChunk(t) == t.k \in {"word", "json", "jstr"}

\* word, json and jstr tokens are whole runs of text: once the escape
\* sequences are gone, two of them are never side by side
WholeChunks(text) ==
    LET c == StripAnsi(text)
    IN  \A i \in 1..(Len(c) - 1) : ~(IsChunk(c[i]) /\ IsChunk(c[i + 1]))

TextPool == {t \in UNION {[1..n -> TextAlphabet] : n \in 0..MaxTextLen} : WholeChunks(t)}

ParseInit ==
    /\ RoundIdle /\ AggIdle /\ GwIdle
    /\ metrics_in = <<>>
    /\ metrics_out = MetricsNotRun
    /\ raw_output \in TextPool
    /\ parsed_out = NotParsed

RunParse ==
    /\ parsed_out = NotParsed
    /\ parsed_out' = parse_fabric_output(raw_output)
    /\ UNCHANGED <<metrics_in, metrics_out, raw_output, aggVars, roundVars, gwVars>>

ParseNext == RunParse

SpecParse == ParseInit /\ [][ParseNext]_vars

Parsed == parsed_out # NotParsed

\* the text once its escape sequences are stripped
CleanText == StripAnsi(raw_output)

\* its lines, numbered top to bottom: line i is what stands between the
\* (i-1)-th and the i-th newline
LineCount == Cardinality({j \in 1..Len(CleanText) : CleanText[j].k = "nl"}) + 1

LineOf(j) == Cardinality({m \in 1..(j - 1) : CleanText[m].k = "nl"}) + 1

LineTokens(i) == {j \in 1..Len(CleanText) : CleanText[j].k # "nl" /\ LineOf(j) = i}

\* line i without the whitespace around it
Content(i) ==
    IF LineTokens(i) = {} THEN <<>>
    ELSE Strip(SubSeq(CleanText, Min(LineTokens(i)), Max(LineTokens(i))))

\* line i starts as an object or array and decodes
DecodesStructured(i) == StartsStructured(Content(i)) /\ JsonLoads(Content(i)).ok

\* line i is not empty and decodes
Decodes(i) == Content(i) # <<>> /\ JsonLoads(Content(i)).ok

StructuredLines == {i \in 1..LineCount : DecodesStructured(i)}
DecodingLines == {i \in 1..LineCount : Decodes(i)}
NonEmptyLines == {i \in 1..LineCount : Content(i) # <<>>}

(* C12: when some line starts as an object or array and decodes, parse     *)
(* returns the decoded value of the first such line from the top, whatever *)
(* stands before or after it, lines of that shape that do not decode       *)
(* included.                                                               *)
C12_ForwardScanReturnsFirstStructuredLine ==
    (Parsed /\ StructuredLines # {}) =>
        parsed_out = JsonLoads(Content(Min(StructuredLines))).val

\* a line that starts as an object and does not decode, then the payload
\* line, then another line; the payload is returned
C12_Witness ==
    /\ Parsed
    /\ \E i, j, k \in 1..LineCount :
        /\ i < j /\ j < k
        /\ StartsStructured(Content(i)) /\ ~JsonLoads(Content(i)).ok
        /\ j \in StructuredLines /\ \A m \in StructuredLines : j <= m
        /\ Content(k) # <<>>
    /\ parsed_out = PyObj(LedgerModel("m1"))

(* C13 (as claimed): when no object- or array-shaped line decodes, parse   *)
(* returns the decoded value of the lowest non-empty line that decodes,    *)
(* also when non-empty lines that do not decode stand below it.            *)
C13_BackwardScanSkipsUndecodableLines ==
    (Parsed /\ StructuredLines = {} /\ DecodingLines # {}) =>
        parsed_out = JsonLoads(Content(Max(DecodingLines))).val

(* C14: parse returns a value for every text; when no line decodes it is   *)
(* the last non-empty line, stripped, as a string; when there is no        *)
(* non-empty line it is the raw text itself, escape sequences included.    *)
C14_ParserIsTotalWithPlainFallback ==
    Parsed =>
        /\ parsed_out.ty \in {"obj", "arr", "num", "str"}
        /\ (DecodingLines = {} /\ NonEmptyLines # {}) =>
                parsed_out = PyStr(Content(Max(NonEmptyLines)))
        /\ NonEmptyLines = {} => parsed_out = PyStr(raw_output)

\* a text of escape sequences and whitespace only: it comes back unchanged
C14_Witness ==
    /\ Parsed
    /\ \E i \in 1..Len(raw_output) : raw_output[i].k = "esc"
    /\ \E i \in 1..Len(raw_output) : raw_output[i].k = "nl"
    /\ NonEmptyLines = {}
    /\ parsed_out = PyStr(raw_output)
    /\ parsed_out # PyStr(CleanText)

----------------------------------------------------------------------------
(* The order of the gateway calls of a round                               *)

QueryCalls == SelectSeq(call_log, LAMBDA c : c.fn = "query")

InvokeCalls == SelectSeq(call_log, LAMBDA c : c.fn = "invoke")

\* the three aggregation steps all return on the working set
AggregationCompletes ==
    /\ aggregate_weights(local_models, source_weight, target_weight).ok
    /\ aggregate_prototypes(local_models, Zero).ok
    /\ compute_metrics(local_models).ok

(* C15: the queries of a round are one per entry of the requested list, in *)
(* list order, each with one transport call whether it fails or not; the   *)
(* AggregateModels invoke is issued at most once, after the query of every *)
(* entry has returned, and only when aggregate_weights,                    *)
(* aggregate_prototypes and compute_metrics all returned; a round with an  *)
(* empty list ends with no gateway call, a round whose aggregation raises  *)
(* ends with no invoke.                                                    *)
C15_CallsAreOrderedAndNeverRetried ==
    /\ Len(QueryCalls) <= Len(model_ids)
    /\ \A i \in 1..Len(QueryCalls) : QueryCalls[i].arg = model_ids[i]
    /\ Len(query_log) = Len(QueryCalls)
    /\ \A i \in 1..Len(query_log) : query_log[i].id = model_ids[i]
    /\ (pc \in {"invoke", "done"} /\ model_ids # <<>>) => Len(QueryCalls) = Len(model_ids)
    /\ Len(InvokeCalls) <= 1
    /\ \A i \in 1..Len(call_log) :
        call_log[i].fn = "invoke" => i = Len(call_log) /\ i = Len(model_ids) + 1
    /\ (pc = "invoke" \/ InvokeIssued) => local_models # <<>> /\ AggregationCompletes
    /\ (pc = "done" /\ model_ids = <<>>) => call_log = <<>>
    /\ (pc = "done" /\ local_models # <<>> /\ ~AggregationCompletes) => ~InvokeIssued

\* three ids, the second query fails and is not repeated, the invoke follows
\* the third query
C15_Witness ==
    /\ pc = "done"
    /\ Len(model_ids) = 3
    /\ QueryFailed(query_log[2])
    /\ call_log = <<Call("query", model_ids[1]), Call("query", model_ids[2]),
                    Call("query", model_ids[3]), Call("invoke", "AggregateModels")>>

====
